---- MODULE Spec2Model ----
(***************************************************************************)
(* fetch_youtube_data.py as a state machine: main() walks                  *)
(*   get_service -> search_channel_id -> get_uploads_playlist_id ->        *)
(*   list_videos (one step per page) -> for each chunk of 50:              *)
(*   get_video_details, then fetch_transcript per video -> save_output     *)
(*   (one step for opening videos.csv, one per record).                    *)
(* The collaborators (the YouTube Data API, the transcript API, the disk)  *)
(* are the record env, fixed when a run starts.                            *)
(***************************************************************************)
EXTENDS Integers, Sequences, FiniteSets, TLC

VARIABLES
    env,          \* API_KEY, the command line and what the collaborators answer
    pc,           \* position in main()
    error,        \* the exception that ended the run, or None
    start_dt,     \* main: start_dt
    end_dt,       \* main: end_dt
    youtube,      \* main: youtube (the service object, or None)
    channel_id,   \* main: channel_id
    playlist_id,  \* main: playlist_id
    next_page,    \* list_videos: next_page
    videos,       \* list_videos: videos
    vids,         \* main: vids
    i,            \* main: i of range(0, len(vids), 50)
    details,      \* main: details of the current chunk
    all_videos,   \* main: all_videos
    j,            \* main: position of the inner loop in vids[i:i+50]
    written,      \* save_output: records of videos already iterated
    fs,           \* the output directory
    calls,        \* the external calls issued by this run, in order
    scanned,      \* iterations of the for loop of list_videos in this run
    run           \* number of the run into the same output directory

vars == <<env, pc, error, start_dt, end_dt, youtube, channel_id, playlist_id,
          next_page, videos, vids, i, j, details, all_videos, written, fs,
          calls, scanned, run>>

-----------------------------------------------------------------------------
(* Bounds of the model *)

MaxDay == 2
MaxItems == 3
MaxEnrich == 2
MaxLong == 101
MaxRuns == 2

(* Program constants *)

ChunkSize == 50
SecondsPerDay == 86400

None == "None"

-----------------------------------------------------------------------------
(* Python helpers *)

Min(a, b) == IF a <= b THEN a ELSE b

\* Python truthiness of a string or None: `not v`
Falsy(v) == v = None \/ v = ""

\* seq[a:b] for 0 <= a
Slice(seq, a, b) == SubSeq(seq, a + 1, Min(b, Len(seq)))

\* dict.get(key, default)
DictGet(d, key, default) == IF key \in DOMAIN d THEN d[key] ELSE default

\* d[key] = value
DictSet(d, key, value) ==
    [k \in DOMAIN d \cup {key} |-> IF k = key THEN value ELSE d[k]]

EmptyDict == [k \in {} |-> None]

\* os.path.join(a, b)
PathJoin(a, b) == a \o "/" \o b

RECURSIVE JoinLines(_)
\* '\n'.join(segments)
JoinLines(segments) ==
    IF segments = <<>> THEN ""
    ELSE IF Len(segments) = 1 THEN segments[1]
    ELSE segments[1] \o "\n" \o JoinLines(Tail(segments))

RECURSIVE LStrip(_, _)
\* chars.lstrip(c) of a string given as its characters
LStrip(chars, c) ==
    IF chars # <<>> /\ Head(chars) = c THEN LStrip(Tail(chars), c) ELSE chars

RECURSIVE Text(_)
\* the string of a sequence of characters
Text(chars) == IF chars = <<>> THEN "" ELSE Head(chars) \o Text(Tail(chars))

\* datetime.strptime(date, '%Y-%m-%d').replace(tzinfo=timezone.utc):
\* the first instant of the day, in seconds
Strptime(date) == date * SecondsPerDay

\* date_parser.isoparse(published_at) of a UTC timestamp <<day, second of day>>
IsoParse(published_at) == published_at[1] * SecondsPerDay + published_at[2]

-----------------------------------------------------------------------------
(* The collaborators *)

\* the continuation token that leads to page k of the playlist
TokenOf(k) == "P" \o ToString(k)

PageIndex(pages, pageToken) ==
    IF pageToken = None THEN 1
    ELSE CHOOSE k \in 2..Len(pages) : TokenOf(k) = pageToken

\* youtube.playlistItems().list(..., pageToken=next_page).execute()
PlaylistItemsList(pages, pageToken) ==
    LET k == PageIndex(pages, pageToken)
    IN  [items |-> pages[k],
         nextPageToken |-> IF k < Len(pages) THEN TokenOf(k + 1) ELSE None]

PlaylistItem(video_id, published_at) ==
    [contentDetails |-> [videoId |-> video_id, videoPublishedAt |-> published_at]]

\* a video resource with snippet and statistics
FullVideo(vid) ==
    [id |-> vid,
     snippet |-> [title |-> "title " \o vid, description |-> "about " \o vid,
                  publishedAt |-> "at " \o vid],
     statistics |-> [viewCount |-> "7", likeCount |-> "3", commentCount |-> "1"]]

\* a video resource without description and without statistics
BareVideo(vid) ==
    [id |-> vid,
     snippet |-> [title |-> "title " \o vid, publishedAt |-> "at " \o vid]]

\* what videos().list answers for one id: nothing when the video is gone
VideoKinds == {"gone", "full", "bare"}

VideoAnswer(vid, kind) ==
    IF kind = "gone" THEN <<>>
    ELSE IF kind = "full" THEN <<FullVideo(vid)>>
    ELSE <<BareVideo(vid)>>

\* what YouTubeTranscriptApi.get_transcript does for one video
Transcript(segments) == [kind |-> "ok", segments |-> segments]
TranscriptRaises(exc) == [kind |-> exc, segments |-> <<>>]

TranscriptAnswers ==
    {Transcript(<<"a", "b">>), Transcript(<<>>),
     TranscriptRaises("TranscriptsDisabled"),
     TranscriptRaises("NoTranscriptFound"),
     TranscriptRaises("RequestBlocked")}

RECURSIVE VideosList(_, _)
\* youtube.videos().list(part='snippet,statistics', id=...).execute()['items']
VideosList(catalog, video_ids) ==
    IF video_ids = <<>> THEN <<>>
    ELSE catalog[Head(video_ids)].video \o VideosList(catalog, Tail(video_ids))

-----------------------------------------------------------------------------
(* list_videos *)

\* InWindow with the end of the window left out
InWindowEndExclusive(start_date, end_date, published) ==
    start_date <= published /\ published < end_date

\* start_date <= published <= end_date
InWindow(start_date, end_date, published) ==
    start_date <= published /\ published <= end_date

\* AppendVideo that keeps the first item of each video id only
AppendVideoOnce(vs, video_id, published) ==
    IF \E k \in DOMAIN vs : vs[k][1] = video_id THEN vs
    ELSE Append(vs, <<video_id, published>>)

\* videos.append((video_id, published))
AppendVideo(vs, video_id, published) == Append(vs, <<video_id, published>>)

RECURSIVE ScanItems(_, _, _, _)
\* the for loop over the items of one response
ScanItems(items, vs, start_date, end_date) ==
    IF items = <<>> THEN vs
    ELSE LET item == Head(items)
             video_id == item.contentDetails.videoId
             published_at == item.contentDetails.videoPublishedAt
             published == IsoParse(published_at)
         IN  ScanItems(Tail(items),
                       IF InWindow(start_date, end_date, published)
                       THEN AppendVideo(vs, video_id, published)
                       ELSE vs,
                       start_date, end_date)

\* LastPage with the test inverted
LastPageInverted(token) == ~Falsy(token)

\* if not next_page: break
LastPage(token) == Falsy(token)

(* get_video_details *)

VideoDetail(item) ==
    LET snippet == item.snippet
        stats == DictGet(item, "statistics", EmptyDict)
    IN  [title |-> snippet.title,
         description |-> DictGet(snippet, "description", ""),
         publishedAt |-> snippet.publishedAt,
         viewCount |-> DictGet(stats, "viewCount", "0"),
         likeCount |-> DictGet(stats, "likeCount", "0"),
         commentCount |-> DictGet(stats, "commentCount", "0")]

RECURSIVE DetailsOf(_, _)
\* the for loop over the items of the response
DetailsOf(items, d) ==
    IF items = <<>> THEN d
    ELSE DetailsOf(Tail(items), DictSet(d, Head(items).id, VideoDetail(Head(items))))

get_video_details(catalog, video_ids) ==
    DetailsOf(VideosList(catalog, video_ids), EmptyDict)

(* fetch_transcript *)

\* Caught without NoTranscriptFound
CaughtDisabledOnly(exc) == exc \in {"TranscriptsDisabled"}

\* except (TranscriptsDisabled, NoTranscriptFound)
Caught(exc) == exc \in {"TranscriptsDisabled", "NoTranscriptFound"}

\* the exception fetch_transcript lets through, or None
fetch_transcript_raises(answer) ==
    IF answer.kind = "ok" \/ Caught(answer.kind) THEN None ELSE answer.kind

\* the value fetch_transcript returns when it returns
fetch_transcript(answer) ==
    IF answer.kind = "ok" THEN JoinLines(answer.segments) ELSE ""

(* main *)

\* KeyMissing that takes the empty string for a key
KeyIsNone(key) == key = None

\* if not API_KEY: raise ValueError
KeyMissing(key) == Falsy(key)

\* BatchIds with a slice one short
BatchIdsShort(vs, k) ==
    [n \in DOMAIN Slice(vs, k, k + ChunkSize - 1) |-> Slice(vs, k, k + ChunkSize - 1)[n][1]]

\* [vid for vid, _ in vids[i:i+50]]
BatchIds(vs, k) == [n \in DOMAIN Slice(vs, k, k + ChunkSize) |-> Slice(vs, k, k + ChunkSize)[n][1]]

\* the dict appended to all_videos
VideoRecord(info, vid, transcript) ==
    [video_id |-> vid,
     publishedAt |-> DictGet(info, "publishedAt", None),
     title |-> DictGet(info, "title", None),
     description |-> DictGet(info, "description", None),
     viewCount |-> DictGet(info, "viewCount", None),
     likeCount |-> DictGet(info, "likeCount", None),
     commentCount |-> DictGet(info, "commentCount", None),
     transcript_path |-> PathJoin("transcripts", vid \o ".txt"),
     transcript |-> transcript]

\* AppendRecord that skips a video without details
AppendRecordIfDetailed(records, d, vid, transcript) ==
    IF vid \in DOMAIN d THEN Append(records, VideoRecord(d[vid], vid, transcript))
    ELSE records

\* info = details.get(vid, {}); ...; all_videos.append({...})
AppendRecord(records, d, vid, transcript) ==
    Append(records, VideoRecord(DictGet(d, vid, EmptyDict), vid, transcript))

\* whether range(0, len(vids), 50) has a value at k
NextChunkPc(vs, k) == IF k < Len(vs) THEN "get_video_details" ELSE "save_output"

(* save_output *)

output_dir == "output"

fieldnames == <<"video_id", "publishedAt", "title", "description", "viewCount",
                "likeCount", "commentCount", "transcript_path">>

\* csv writes None as the empty string
CsvCell(v) == IF v = None THEN "" ELSE v

\* writer.writerow({k: video.get(k, '') for k in fieldnames})
CsvRow(video) == [c \in DOMAIN fieldnames |-> CsvCell(DictGet(video, fieldnames[c], ""))]

TranscriptFile(video) == PathJoin("transcripts", video.video_id \o ".txt")

FullPath(video) == PathJoin(output_dir, TranscriptFile(video))

EmptyFs == [csv_exists |-> FALSE, csv |-> <<>>, files |-> EmptyDict]

-----------------------------------------------------------------------------
(* The inputs: API_KEY, the command line, the collaborators' answers *)

SeqsUpTo(S, n) == UNION {[1..k -> S] : k \in 0..n}

Days == 1..MaxDay
\* publish timestamps <<day, second of day>>: every midnight, and noon of day 1
Stamps == (Days \X {0}) \cup {<<1, 43200>>}
Windows == {w \in Days \X Days : w[1] <= w[2]}
RichIds == {"v1", "v2"}

\* the items cut into pages of p items; a playlist without items is one empty page
Paginate(items, p) ==
    IF items = <<>> THEN << <<>> >>
    ELSE [k \in 1..((Len(items) + p - 1) \div p) |-> Slice(items, (k - 1) * p, k * p)]

Healthy(vid) == [video |-> <<FullVideo(vid)>>, transcript |-> Transcript(<<"a", "b">>)]

BaseEnv ==
    [API_KEY |-> "key", channel_handle |-> <<"@", "K">>, start_date |-> 1, end_date |-> 1,
     search_items |-> <<"UC1">>, channel_items |-> <<"UU1">>,
     pages |-> << <<PlaylistItem("v1", <<1, 0>>)>> >>,
     catalog |-> [v \in RichIds |-> Healthy(v)],
     io_fail |-> 0]

\* runs that stop before the playlist is read
EarlyEnvs ==
    {[BaseEnv EXCEPT !.API_KEY = k] : k \in {None, ""}}
    \cup {[BaseEnv EXCEPT !.search_items = <<>>], [BaseEnv EXCEPT !.channel_items = <<>>]}

\* the handle with and without the prefix
HandleEnvs == {[BaseEnv EXCEPT !.channel_handle = h] : h \in {<<"K">>, <<"@", "@", "K">>}}

\* the ids of a playlist that holds the first video again at every other place
AltId(k) == IF k % 2 = 1 THEN "v1" ELSE "v2"

\* playlists of any order, any paging, against every window
ListEnvs ==
    {[BaseEnv EXCEPT !.start_date = w[1], !.end_date = w[2],
                     !.pages = Paginate([k \in DOMAIN stamps |-> PlaylistItem(AltId(k), stamps[k])], p)] :
        w \in Windows, p \in 1..MaxItems, stamps \in SeqsUpTo(Stamps, MaxItems)}

\* short in-range playlists against every answer of the collaborators and the disk
EnrichEnvs ==
    {[BaseEnv EXCEPT !.pages = << [k \in DOMAIN ids |-> PlaylistItem(ids[k], <<1, 0>>)] >>,
                     !.catalog = [v \in RichIds |-> [video |-> VideoAnswer(v, c[v][1]),
                                                     transcript |-> c[v][2]]],
                     !.io_fail = f] :
        ids \in SeqsUpTo(RichIds, MaxEnrich), f \in 0..(MaxEnrich + 1),
        c \in [RichIds -> VideoKinds \X TranscriptAnswers]}

LongId(k) == "n" \o ToString(k)

\* long in-range playlists of distinct healthy videos, 50 to a page
LongEnvs ==
    {[BaseEnv EXCEPT !.pages = Paginate([k \in 1..n |-> PlaylistItem(LongId(k), <<1, 0>>)], ChunkSize),
                     !.catalog = [v \in {LongId(k) : k \in 1..n} |-> Healthy(v)]] :
        n \in (ChunkSize - 1)..MaxLong}

Envs == EarlyEnvs \cup HandleEnvs \cup ListEnvs \cup EnrichEnvs \cup LongEnvs

-----------------------------------------------------------------------------
(* main, step by step *)

Call(op, arg) == [op |-> op, arg |-> arg]

\* the state of a process that has just entered main
Fresh(e) ==
    /\ env = e
    /\ pc = "main"
    /\ error = None
    /\ start_dt = 0
    /\ end_dt = 0
    /\ youtube = None
    /\ channel_id = None
    /\ playlist_id = None
    /\ next_page = None
    /\ videos = <<>>
    /\ vids = <<>>
    /\ i = 0
    /\ j = 0
    /\ details = EmptyDict
    /\ all_videos = <<>>
    /\ written = 0
    /\ calls = <<>>
    /\ scanned = 0

Init == \E e \in Envs : Fresh(e) /\ fs = EmptyFs /\ run = 1

\* an exception leaves main
Raise(exc) == pc' = "aborted" /\ error' = exc

ParseDates ==
    /\ pc = "main"
    /\ start_dt' = Strptime(env.start_date)
    /\ end_dt' = Strptime(env.end_date)
    /\ pc' = "get_service"
    /\ UNCHANGED <<env, error, youtube, channel_id, playlist_id, next_page, videos,
                   vids, i, j, details, all_videos, written, fs, calls, scanned, run>>

GetService ==
    /\ pc = "get_service"
    /\ IF KeyMissing(env.API_KEY)
       THEN Raise("ValueError") /\ UNCHANGED youtube
       ELSE youtube' = "youtube v3" /\ pc' = "search_channel_id" /\ UNCHANGED error
    /\ UNCHANGED <<env, start_dt, end_dt, channel_id, playlist_id, next_page, videos,
                   vids, i, j, details, all_videos, written, fs, calls, scanned, run>>

SearchChannelId ==
    /\ pc = "search_channel_id"
    /\ calls' = Append(calls, Call("search", <<Text(LStrip(env.channel_handle, "@"))>>))
    /\ IF env.search_items = <<>>
       THEN Raise("ValueError") /\ UNCHANGED channel_id
       ELSE channel_id' = env.search_items[1] /\ pc' = "get_uploads_playlist_id"
            /\ UNCHANGED error
    /\ UNCHANGED <<env, start_dt, end_dt, youtube, playlist_id, next_page, videos,
                   vids, i, j, details, all_videos, written, fs, scanned, run>>

GetUploadsPlaylistId ==
    /\ pc = "get_uploads_playlist_id"
    /\ calls' = Append(calls, Call("channels", <<channel_id>>))
    /\ IF env.channel_items = <<>>
       THEN Raise("ValueError") /\ UNCHANGED <<playlist_id, videos, next_page>>
       ELSE /\ playlist_id' = env.channel_items[1]
            /\ videos' = <<>>
            /\ next_page' = None
            /\ pc' = "list_videos"
            /\ UNCHANGED error
    /\ UNCHANGED <<env, start_dt, end_dt, youtube, channel_id,
                   vids, i, j, details, all_videos, written, fs, scanned, run>>

\* one iteration of the while loop of list_videos; the last one returns to main
ListVideos ==
    /\ pc = "list_videos"
    /\ LET response == PlaylistItemsList(env.pages, next_page)
       IN  /\ calls' = Append(calls, Call("playlistItems", <<next_page>>))
           /\ videos' = ScanItems(response.items, videos, start_dt, end_dt)
           /\ scanned' = scanned + Len(response.items)
           /\ next_page' = response.nextPageToken
           /\ IF LastPage(response.nextPageToken)
              THEN /\ vids' = videos'
                   /\ all_videos' = <<>>
                   /\ i' = 0
                   /\ pc' = NextChunkPc(videos', 0)
              ELSE UNCHANGED <<vids, all_videos, i, pc>>
    /\ UNCHANGED <<env, error, start_dt, end_dt, youtube, channel_id, playlist_id,
                   j, details, written, fs, run>>

GetVideoDetails ==
    /\ pc = "get_video_details"
    /\ LET batch_ids == BatchIds(vids, i)
       IN  /\ calls' = Append(calls, Call("videos", batch_ids))
           /\ details' = get_video_details(env.catalog, batch_ids)
    /\ j' = 0
    /\ pc' = "fetch_transcript"
    /\ UNCHANGED <<env, error, start_dt, end_dt, youtube, channel_id, playlist_id,
                   next_page, videos, vids, i, all_videos, written, fs, scanned, run>>

\* one iteration of the inner for loop of main
FetchTranscript ==
    /\ pc = "fetch_transcript"
    /\ LET batch == Slice(vids, i, i + ChunkSize)
           vid == batch[j + 1][1]
           answer == env.catalog[vid].transcript
       IN  /\ calls' = Append(calls, Call("get_transcript", <<vid>>))
           /\ IF fetch_transcript_raises(answer) # None
              THEN Raise(fetch_transcript_raises(answer)) /\ UNCHANGED <<all_videos, i, j>>
              ELSE /\ all_videos' = AppendRecord(all_videos, details, vid, fetch_transcript(answer))
                   /\ UNCHANGED error
                   /\ IF j + 1 < Len(batch)
                      THEN j' = j + 1 /\ UNCHANGED <<i, pc>>
                      ELSE /\ j' = 0
                           /\ i' = i + ChunkSize
                           /\ pc' = NextChunkPc(vids, i + ChunkSize)
    /\ UNCHANGED <<env, start_dt, end_dt, youtube, channel_id, playlist_id,
                   next_page, videos, vids, details, written, fs, scanned, run>>

\* save_output up to writer.writeheader()
SaveOpen ==
    /\ pc = "save_output"
    /\ IF env.io_fail = 1
       THEN Raise("OSError") /\ UNCHANGED <<fs, written>>
       ELSE /\ fs' = [fs EXCEPT !.csv_exists = TRUE, !.csv = <<fieldnames>>]
            /\ written' = 0
            /\ pc' = IF all_videos = <<>> THEN "done" ELSE "save_rows"
            /\ UNCHANGED error
    /\ UNCHANGED <<env, start_dt, end_dt, youtube, channel_id, playlist_id, next_page,
                   videos, vids, i, j, details, all_videos, calls, scanned, run>>

\* one iteration of the for loop of save_output
SaveRecord ==
    /\ pc = "save_rows"
    /\ LET video == all_videos[written + 1]
       IN  IF ~Falsy(video.transcript) /\ env.io_fail = written + 2
           THEN Raise("OSError") /\ UNCHANGED <<fs, written>>
           ELSE /\ fs' = [fs EXCEPT
                            !.files = IF ~Falsy(video.transcript)
                                      THEN DictSet(@, FullPath(video), video.transcript)
                                      ELSE @,
                            !.csv = Append(@, CsvRow(video))]
                /\ written' = written + 1
                /\ pc' = IF written + 1 = Len(all_videos) THEN "done" ELSE "save_rows"
                /\ UNCHANGED error
    /\ UNCHANGED <<env, start_dt, end_dt, youtube, channel_id, playlist_id, next_page,
                   videos, vids, i, j, details, all_videos, calls, scanned, run>>

Next ==
    \/ ParseDates
    \/ GetService
    \/ SearchChannelId
    \/ GetUploadsPlaylistId
    \/ ListVideos
    \/ GetVideoDetails
    \/ FetchTranscript
    \/ SaveOpen
    \/ SaveRecord

Spec == Init /\ [][Next]_vars

\* a later run of the tool into the same output directory
RunEnvs ==
    {[BaseEnv EXCEPT !.catalog = [v \in RichIds |-> [video |-> <<FullVideo(v)>>, transcript |-> t]],
                     !.io_fail = f] :
        f \in {0, 2},
        t \in {Transcript(<<"a", "b">>), Transcript(<<"c">>), TranscriptRaises("TranscriptsDisabled")}}

InitRuns == \E e \in RunEnvs : Fresh(e) /\ fs = EmptyFs /\ run = 1

\* the process has ended and the tool is invoked again
Restart ==
    /\ pc \in {"done", "aborted"}
    /\ run < MaxRuns
    /\ run' = run + 1
    /\ \E e \in RunEnvs :
        /\ env' = e
        /\ pc' = "main"
        /\ error' = None
        /\ start_dt' = 0
        /\ end_dt' = 0
        /\ youtube' = None
        /\ channel_id' = None
        /\ playlist_id' = None
        /\ next_page' = None
        /\ videos' = <<>>
        /\ vids' = <<>>
        /\ i' = 0
        /\ j' = 0
        /\ details' = EmptyDict
        /\ all_videos' = <<>>
        /\ written' = 0
        /\ calls' = <<>>
        /\ scanned' = 0
    /\ UNCHANGED fs

NextRuns == Next \/ Restart

SpecRuns == InitRuns /\ [][NextRuns]_vars

InitList == \E e \in EarlyEnvs \cup ListEnvs : Fresh(e) /\ fs = EmptyFs /\ run = 1

\* main runs to its end once started: nothing suspends the single thread
FairSpec == InitList /\ [][Next]_vars /\ WF_vars(Next)

-----------------------------------------------------------------------------
(* Vocabulary of the properties *)

\* list_videos has returned to main
Listed ==
    /\ pc \notin {"main", "get_service", "search_channel_id",
                  "get_uploads_playlist_id", "list_videos"}
    /\ ~(pc = "aborted" /\ error = "ValueError")

RECURSIVE Flatten(_)
Flatten(pages) == IF pages = <<>> THEN <<>> ELSE Head(pages) \o Flatten(Tail(pages))

RECURSIVE SumLens(_)
SumLens(pages) == IF pages = <<>> THEN 0 ELSE Len(Head(pages)) + SumLens(Tail(pages))

\* the playlist items in scan order
AllItems == Flatten(env.pages)

ItemId(item) == item.contentDetails.videoId
ItemStamp(item) == item.contentDetails.videoPublishedAt
ItemInstant(item) == ItemStamp(item)[1] * SecondsPerDay + ItemStamp(item)[2]

\* the item's publish instant lies in the window list_videos was given
ItemInRange(item) == start_dt <= ItemInstant(item) /\ ItemInstant(item) <= end_dt

InRangeItems == SelectSeq(AllItems, ItemInRange)

CallsOf(ops) == SelectSeq(calls, LAMBDA c : c.op \in ops)

Occurrences(seq, x) == Cardinality({k \in DOMAIN seq : seq[k] = x})

Ids(vs) == [k \in DOMAIN vs |-> vs[k][1]]

RecordIds(records) == [k \in DOMAIN records |-> records[k].video_id]

\* the video_id column of videos.csv without the header line
CsvIds == [k \in 1..(Len(fs.csv) - 1) |-> fs.csv[k + 1][1]]

IsPrefix(a, b) == Len(a) <= Len(b) /\ a = SubSeq(b, 1, Len(a))

-----------------------------------------------------------------------------
(* C1 *)

\* C1: every playlist item published at any instant of day S or of day E (UTC)
\* is in the list that list_videos returns.
C1_BoundaryDaysCovered ==
    Listed =>
        LET items == AllItems
        IN  \A k \in DOMAIN items :
                ItemStamp(items[k])[1] \in {env.start_date, env.end_date}
                => \E m \in DOMAIN vids :
                       vids[m] = <<ItemId(items[k]), ItemInstant(items[k])>>

(* C2 *)

\* C2: list_videos returns exactly the items whose publish instant p satisfies
\* s <= p <= e, in scan order, whatever the order of the pages.
C2_ExactFilterInScanOrder ==
    Listed =>
        LET expected == InRangeItems
        IN  vids = [k \in DOMAIN expected |->
                       <<ItemId(expected[k]), ItemInstant(expected[k])>>]

\* an in-range item on a later page than an out-of-range item has been returned
C2_Witness ==
    /\ Listed
    /\ Len(env.pages) > 1
    /\ vids # <<>>
    /\ Len(vids) < Len(AllItems)
    /\ env.pages[1] # <<>>
    /\ ~ItemInRange(env.pages[1][1])
    /\ ItemInRange(env.pages[Len(env.pages)][1])

(* C3 *)

\* the page requests a playlist of n pages asks for: no token, then each page's token
ExpectedPageCalls(n) ==
    [k \in 1..n |-> Call("playlistItems", <<IF k = 1 THEN None ELSE TokenOf(k)>>)]

C3_PagesOnce ==
    LET requests == CallsOf({"playlistItems"})
    IN  /\ IsPrefix(requests, ExpectedPageCalls(Len(env.pages)))
        /\ pc = "list_videos" => Len(requests) < Len(env.pages)
        /\ Listed => /\ Len(requests) = Len(env.pages)
                     /\ scanned = SumLens(env.pages)

\* C3: over a finite sequence of pages list_videos terminates, requests every
\* page exactly once (first without a token, then with the token of the page
\* before), stops after the first page without a token, and scans as many
\* items as the pages hold together, whatever the window.
C3_PaginationTerminates ==
    /\ []C3_PagesOnce
    /\ (pc = "list_videos") ~> Listed

\* a playlist of three pages has been read to its end with items outside the window
C3_Witness ==
    /\ Listed
    /\ Len(env.pages) >= 3
    /\ Len(CallsOf({"playlistItems"})) = Len(env.pages)
    /\ Len(vids) < scanned

(* C4 *)

NoDuplicates(seq) == \A a, b \in DOMAIN seq : seq[a] = seq[b] => a = b

\* C4: no video_id appears more than once in the list list_videos returns, in
\* the records passed to save_output, or in the rows of videos.csv.
C4_Deduplicated ==
    /\ Listed => NoDuplicates(Ids(vids))
    /\ NoDuplicates(RecordIds(all_videos))
    /\ NoDuplicates(CsvIds)

\* C4 as amended: nothing is deduplicated. Every video id is in the list
\* list_videos returns as often as it is among the in-range playlist items,
\* and after a run that completes as often again in the records and in the
\* rows of videos.csv.
C4_MultiplicityKept ==
    Listed =>
        LET expected == InRangeItems
            wanted == [k \in DOMAIN expected |-> ItemId(expected[k])]
        IN  \A v \in DOMAIN env.catalog :
                /\ Occurrences(Ids(vids), v) = Occurrences(wanted, v)
                /\ pc = "done" =>
                    /\ Occurrences(RecordIds(all_videos), v) = Occurrences(wanted, v)
                    /\ Occurrences(CsvIds, v) = Occurrences(wanted, v)

\* a run has completed with one video id in two rows of videos.csv
C4_Witness ==
    /\ pc = "done"
    /\ \E a, b \in DOMAIN CsvIds : a # b /\ CsvIds[a] = CsvIds[b]

(* C5 *)

RECURSIVE Concat(_)
Concat(seqs) == IF seqs = <<>> THEN <<>> ELSE Head(seqs) \o Concat(Tail(seqs))

\* C5: a run that completes over n in-range videos has issued ceil(n/50)
\* detail calls, each with at most 50 ids, together the ids in listing order,
\* and n transcript calls, one per video in listing order; none for n = 0.
C5_Batching ==
    pc = "done" =>
        LET n == Len(vids)
            detail == CallsOf({"videos"})
            transcript == CallsOf({"get_transcript"})
        IN  /\ Len(detail) = (n + 49) \div 50
            /\ \A k \in DOMAIN detail : Len(detail[k].arg) \in 1..50
            /\ Concat([k \in DOMAIN detail |-> detail[k].arg]) = Ids(vids)
            /\ transcript = [k \in 1..n |-> Call("get_transcript", <<vids[k][1]>>)]

\* a run over more than two full chunks has completed
C5_Witness ==
    /\ pc = "done"
    /\ Len(vids) > 100
    /\ Len(CallsOf({"videos"})) = 3

(* C6 *)

TranscriptKind(vid) == env.catalog[vid].transcript.kind

Unavailable == {"TranscriptsDisabled", "NoTranscriptFound"}

\* C6: 'transcripts disabled' and 'no transcript found' both give the empty
\* string and the run goes on with that video's record and the videos after
\* it; any other exception of the transcript call ends the run.
C6_TranscriptUnavailable ==
    /\ \A k \in DOMAIN all_videos :
           TranscriptKind(all_videos[k].video_id) \in Unavailable
           => all_videos[k].transcript = ""
    /\ Listed =>
           \A k \in DOMAIN vids :
               TranscriptKind(vids[k][1]) \notin Unavailable \cup {"ok"}
               => Len(all_videos) < k /\ pc \notin {"save_output", "save_rows", "done"}
    /\ pc = "aborted" /\ error \notin {"ValueError", "OSError"} =>
           /\ error \notin Unavailable
           /\ error = TranscriptKind(vids[Len(all_videos) + 1][1])
    /\ pc \in {"save_output", "save_rows", "done"} => Len(all_videos) = Len(vids)

\* a run has completed in which a video without transcript is followed by one with
C6_Witness ==
    /\ pc = "done"
    /\ \E a, b \in DOMAIN all_videos :
           /\ a < b
           /\ TranscriptKind(all_videos[a].video_id) \in Unavailable
           /\ all_videos[a].transcript = ""
           /\ all_videos[b].transcript # ""

(* C7 *)

\* C7: a run that aborts leaves no rows in videos.csv and no transcript files
\* that cover only part of the in-range videos.
C7_NoPartialOutput ==
    pc = "aborted" => Len(fs.csv) <= 1 /\ DOMAIN fs.files = {}

(* C8 *)

\* C8: after save_output the file transcripts/<video_id>.txt of a record is
\* absent when the record's transcript is empty and holds exactly the
\* transcript otherwise, after any sequence of runs into the same directory.
C8_FileOnlyWhenTranscript ==
    pc = "done" =>
        \A k \in DOMAIN all_videos :
            LET video == all_videos[k]
                path == "output/transcripts/" \o video.video_id \o ".txt"
            IN  /\ fs.csv[k + 1][8] = "transcripts/" \o video.video_id \o ".txt"
                /\ IF video.transcript = ""
                   THEN path \notin DOMAIN fs.files
                   ELSE path \in DOMAIN fs.files /\ fs.files[path] = video.transcript

(* C9 *)

\* C9: a run that completes has one record and one row of videos.csv per
\* listed video, in listing order; a video absent from the detail response
\* keeps its video_id and transcript_path and has None (empty in the csv) for
\* title, description, publishedAt, viewCount, likeCount and commentCount.
C9_OneRecordPerVideo ==
    pc = "done" =>
        /\ Len(all_videos) = Len(vids)
        /\ Len(fs.csv) = Len(vids) + 1
        /\ \A k \in DOMAIN vids :
               LET vid == vids[k][1]
                   video == all_videos[k]
                   row == fs.csv[k + 1]
               IN  /\ video.video_id = vid
                   /\ video.transcript_path = "transcripts/" \o vid \o ".txt"
                   /\ row[1] = vid
                   /\ row[8] = "transcripts/" \o vid \o ".txt"
                   /\ env.catalog[vid].video = <<>> =>
                          /\ \A f \in {"title", "description", "publishedAt",
                                       "viewCount", "likeCount", "commentCount"} :
                                 video[f] = None
                          /\ \A c \in 2..7 : row[c] = ""

\* a run has completed over a video without details followed by one with details
C9_Witness ==
    /\ pc = "done"
    /\ Len(vids) >= 2
    /\ env.catalog[vids[1][1]].video = <<>>
    /\ env.catalog[vids[2][1]].video # <<>>
    /\ Len(fs.csv) = 3

(* C10 *)

RECURSIVE ExpectedEnrich(_)
\* per chunk of at most 50: the detail call, then the transcript call of each video
ExpectedEnrich(vs) ==
    IF vs = <<>> THEN <<>>
    ELSE LET chunk == SubSeq(vs, 1, Min(50, Len(vs)))
             rest == SubSeq(vs, Len(chunk) + 1, Len(vs))
         IN  <<Call("videos", Ids(chunk))>>
             \o [k \in DOMAIN chunk |-> Call("get_transcript", <<chunk[k][1]>>)]
             \o ExpectedEnrich(rest)

FsUntouched == ~fs.csv_exists /\ fs.csv = <<>> /\ DOMAIN fs.files = {}

\* C10: without an API key main raises before any call and before anything is
\* written; otherwise search precedes channels, channels precedes the playlist
\* pages, each chunk's detail call precedes its transcript calls, which precede
\* the next chunk's detail call, and nothing is written before the last
\* transcript call.
C10_DependencyOrder ==
    LET search == CallsOf({"search"})
        channels == CallsOf({"channels"})
        pages == CallsOf({"playlistItems"})
        enrich == CallsOf({"videos", "get_transcript"})
    IN  /\ env.API_KEY \in {None, ""} => calls = <<>> /\ FsUntouched /\ youtube = None
        /\ calls = search \o channels \o pages \o enrich
        /\ Len(search) <= 1 /\ Len(channels) <= 1
        /\ channels # <<>> => search # <<>>
        /\ pages # <<>> => channels # <<>>
        /\ enrich # <<>> => Listed
        /\ Listed => IsPrefix(enrich, ExpectedEnrich(vids))
        /\ ~FsUntouched => Listed /\ enrich = ExpectedEnrich(vids)

\* a run over two chunks has written its output
C10_Witness ==
    /\ pc = "done"
    /\ Len(vids) > 50
    /\ fs.csv_exists
    /\ Len(CallsOf({"videos"})) >= 2

====
